---- MODULE Spec2Model ----
(***************************************************************************)
(* Product inventory REST API: request validation (Validator), business    *)
(* rules (ProductService), persistence gateway (ProductRepository) over    *)
(* the Product schema, and error normalization (errorHandler).             *)
(*                                                                         *)
(* The document store is an external collection.  It is opened with the    *)
(* documents it already holds; every such document satisfies the Product   *)
(* schema, its names are unique ignoring case and its stock is not         *)
(* negative.  Each HTTP request is a process that suspends at every await of *)
(* a repository call; one repository call is one atomic store operation.   *)
(*                                                                         *)
(* Representation:                                                         *)
(*   - a name is a sequence of one-character strings;                      *)
(*   - a description is represented by its length;                         *)
(*   - a price is an integer number of thousandths (0.01 is 10);           *)
(*   - a request body is a record holding only the fields that are present;*)
(*   - numeric body fields are numbers (isNaN is false on all of them);    *)
(*   - a JSON value that is not a string, given where a string is          *)
(*     expected, is a sequence that starts with a type marker (for a       *)
(*     name) or the length NoLength (for a description).                   *)
(***************************************************************************)
EXTENDS Integers, Sequences, FiniteSets, TLC

VARIABLES store, nextId, req, coll, ldeleted, lpc, lopts, lproducts, lresult,
          err, response, server, conns, db, proc, downs, phase, timer

vars == <<store, nextId, req, coll, ldeleted, lpc, lopts, lproducts, lresult,
          err, response, server, conns, db, proc, downs, phase, timer>>
mainVars == <<store, nextId, req>>
listVars == <<coll, ldeleted, lpc, lopts, lproducts, lresult>>
(* The error at the handler boundary and the response written for it *)
errVars == <<err, response>>
(* The process: HTTP server, its open connections, the store connection,   *)
(* the exit state, and the calls of gracefulShutdown made so far           *)
downVars == <<server, conns, db, proc, downs, phase, timer>>
sideVars == <<errVars, downVars>>

----------------------------------------------------------------------------
(* Bounds of the model *)

MaxStock == 1
MaxNew == 1
MaxRecords == 16
MaxPage == 3
MaxLimit == 11
MaxDeletes == 1
MaxDelta == 1
MaxShutdowns == 2
MaxConns == 1

(* Program constants *)

NameMinValidator == 3
NameMaxLen == 100
DescMinValidator == 10
DescMaxLen == 500
NameMinSchema == 6
DescMinSchema == 20
MinPrice == 10
DefaultPage == 1
DefaultLimit == 10

Null == [null |-> TRUE]
NullId == 0

(* Two products and two requests in flight: the least that has every      *)
(* interleaving of one request's read and write with another's write.     *)
Ids == {1, 2}
Reqs == {1, 2}
RouteIds == Ids \cup {NullId}

Has(b, f) == f \in DOMAIN b

----------------------------------------------------------------------------
(* Names, case folding and the regular expression built by existsByName *)

toLowerCase(c) ==
  CASE c = "W" -> "w"
    [] c = "G" -> "g"
    [] OTHER -> c

toUpperCase(c) ==
  CASE c = "w" -> "W"
    [] c = "g" -> "G"
    [] OTHER -> c

LowerName(n) == [i \in 1..Len(n) |-> toLowerCase(n[i])]

EqualIgnoreCase(a, b) == LowerName(a) = LowerName(b)

(* String.charAt(0).toUpperCase() + slice(1) of the pre-save hook *)
Capitalize(n) == IF n = <<>> THEN n ELSE <<toUpperCase(n[1])>> \o Tail(n)

(* One pattern character against one subject character under the i flag *)
CharMatch(pc, c) == pc = "." \/ toLowerCase(pc) = toLowerCase(c)

(* new RegExp(pattern, 'i') anchored at both ends, for patterns made of    *)
(* literal characters, "." (any character) and a postfix "+" (one or more).*)
RECURSIVE RegexMatch(_, _)
RegexMatch(p, s) ==
  IF p = <<>> THEN s = <<>>
  ELSE IF Len(p) >= 2 /\ p[2] = "+"
       THEN /\ s # <<>>
            /\ CharMatch(p[1], s[1])
            /\ \/ RegexMatch(Tail(Tail(p)), Tail(s))
               \/ RegexMatch(p, Tail(s))
       ELSE /\ s # <<>>
            /\ CharMatch(p[1], s[1])
            /\ RegexMatch(Tail(p), Tail(s))

Widget == <<"W", "i", "d", "g", "e", "t">>
widget == <<"w", "i", "d", "g", "e", "t">>
Gadget == <<"G", "a", "d", "g", "e", "t">>
WidPlus == <<"W", "i", "d", "+", "e", "t">>
Wid == <<"W", "i", "d">>
Wi == <<"W", "i">>

(* JSON values that are not strings: the number 123 and null *)
Number123 == <<"#number", "1", "2", "3">>
JsonNull == <<"#null">>
NoLength == 0 - 1

(* typeof v === 'string', and !v is false *)
IsString(v) == v = <<>> \/ v[1] \notin {"#number", "#null"}
Truthy(v) == v # <<>> /\ v # JsonNull

(* Names a stored document may carry when the store is opened *)
StoredNames == {Widget, Gadget, WidPlus}
(* Names a request may carry *)
RequestNames == {Widget, widget, Gadget, WidPlus, Wid, Wi}

----------------------------------------------------------------------------
(* Product schema *)

SchemaCategories == {"Electronica", "Ropa", "Hogar", "Libros", "Otros"}
validCategories == {"electronics", "clothing", "food", "books", "other"}

(* Paths of a document (or of the present fields of an update) that fail   *)
(* the schema validators.                                                  *)
schemaErrors(d, required) ==
     (IF Has(d, "name")
        THEN IF Len(d.name) < NameMinSchema \/ Len(d.name) > NameMaxLen
               THEN {"name"} ELSE {}
        ELSE IF required THEN {"name"} ELSE {})
  \cup (IF Has(d, "description")
        THEN IF d.description < DescMinSchema \/ d.description > DescMaxLen
               THEN {"description"} ELSE {}
        ELSE IF required THEN {"description"} ELSE {})
  \cup (IF Has(d, "price")
        THEN IF d.price < 0 THEN {"price"} ELSE {}
        ELSE IF required THEN {"price"} ELSE {})
  \cup (IF Has(d, "category")
        THEN IF d.category \notin SchemaCategories THEN {"category"} ELSE {}
        ELSE IF required THEN {"category"} ELSE {})
  \cup (IF Has(d, "stock") /\ d.stock < 0 THEN {"stock"} ELSE {})

(* new Product(productData): schema fields of the body, with the defaults  *)
newProduct(body) ==
  [f \in (DOMAIN body \cap {"name", "description", "price", "category"})
         \cup {"stock", "isActive"} |->
     IF Has(body, f) THEN body[f]
     ELSE IF f = "stock" THEN 0 ELSE TRUE]

(* pre('save'): capitalize the first character of the name *)
preSave(d) == IF Has(d, "name") THEN [d EXCEPT !.name = Capitalize(d.name)] ELSE d

----------------------------------------------------------------------------
(* Errors and error normalization *)

ApiError(statusCode, message) ==
  [name |-> "ApiError", statusCode |-> statusCode, message |-> message]

(* The error Mongoose raises when schema validators fail: errors holds    *)
(* the failing paths                                                       *)
MongooseValidationError(paths) ==
  [name |-> "ValidationError", errors |-> paths,
   message |-> <<"Product validation failed">>]

SchemaPaths == <<"name", "description", "price", "category", "stock", "isActive">>

(* Object.values(err.errors).map(e => e.message): one message per failing  *)
(* path, in the order of the schema; a message is named by its path        *)
pathMessages(paths) == SelectSeq(SchemaPaths, LAMBDA p : p \in paths)

handleMongooseError_identity(e) == e

handleMongooseError(e) ==
  IF e.name = "ValidationError" THEN ApiError(400, pathMessages(e.errors))
  ELSE IF e.name = "CastError" THEN ApiError(400, <<"Valor invalido para", e.path>>)
  ELSE IF Has(e, "code") /\ e.code = 11000
    THEN ApiError(409, <<"El", e.keyPattern[1], "ya existe">>)
  ELSE e

(* The response written for an error that reached next(error); NODE_ENV is *)
(* not 'development', so the response carries no stack.  An error is an    *)
(* instance of ApiError exactly when its name is "ApiError".               *)
errorHandler(e) ==
  LET error == IF \/ e.name = "ValidationError"
                  \/ e.name = "CastError"
                  \/ (Has(e, "code") /\ e.code = 11000)
               THEN handleMongooseError(e)
               ELSE e
      final == IF error.name = "ApiError" THEN error
               ELSE ApiError(IF Has(error, "statusCode") /\ error.statusCode # 0
                               THEN error.statusCode ELSE 500,
                             IF Has(error, "message") /\ error.message # <<>>
                               THEN error.message
                               ELSE <<"Error interno del servidor">>)
  IN [statusCode |-> final.statusCode, success |-> FALSE,
      message |-> final.message, data |-> Null]

(* ApiResponse.success / ApiResponse.created followed by send *)
ApiResponse(statusCode, data) ==
  [statusCode |-> statusCode, success |-> statusCode < 400,
   message |-> <<"ok">>, data |-> data]

----------------------------------------------------------------------------
(* Request validation layer *)

ObjectIdIsValid(id) == id # NullId

validateMongoId(id) ==
  IF ObjectIdIsValid(id) THEN <<>> ELSE <<"ID de producto invalido">>

(* The field on which the validator calls .trim() although its value is   *)
(* not a string, "" when there is none: the call throws a TypeError.       *)
(* validateProductCreate calls name.trim() only when !name is false.       *)
createTrimThrows(body) ==
  IF Has(body, "name") /\ Truthy(body.name) /\ ~IsString(body.name) THEN "name"
  ELSE IF Has(body, "description") /\ body.description = NoLength THEN "description"
  ELSE ""

(* validateProductUpdate calls name.trim() whenever name is not undefined *)
updateTrimThrows(body) ==
  IF Has(body, "name") /\ ~IsString(body.name) THEN "name"
  ELSE IF Has(body, "description") /\ body.description = NoLength THEN "description"
  ELSE ""

TypeError(field) ==
  [name |-> "TypeError", message |-> <<field, ".trim is not a function">>]

validateProductCreate(body) ==
     (IF ~Has(body, "name") \/ ~Truthy(body.name)
        THEN <<"El nombre es obligatorio">>
      ELSE IF Len(body.name) < NameMinValidator \/ Len(body.name) > NameMaxLen
        THEN <<"El nombre debe tener entre 3 y 100 caracteres">>
      ELSE <<>>)
  \o (IF ~Has(body, "description") \/ body.description = 0
        THEN <<"La descripcion es obligatoria">>
      ELSE IF body.description < DescMinValidator \/ body.description > DescMaxLen
        THEN <<"La descripcion debe tener entre 10 y 500 caracteres">>
      ELSE <<>>)
  \o (IF ~Has(body, "price")
        THEN <<"El precio es obligatorio">>
      ELSE IF body.price < 0
        THEN <<"El precio debe ser un numero positivo">>
      ELSE <<>>)
  \o (IF Has(body, "stock") /\ body.stock < 0
        THEN <<"El stock debe ser un numero positivo">>
      ELSE <<>>)
  \o (IF ~Has(body, "category")
        THEN <<"La categoria es obligatoria">>
      ELSE IF body.category \notin validCategories
        THEN <<"Categoria invalida">>
      ELSE <<>>)

validateProductUpdate(body) ==
     (IF Has(body, "name")
        THEN IF body.name = <<>>
               THEN <<"El nombre no puede estar vacio">>
             ELSE IF Len(body.name) < NameMinValidator \/ Len(body.name) > NameMaxLen
               THEN <<"El nombre debe tener entre 3 y 100 caracteres">>
             ELSE <<>>
        ELSE <<>>)
  \o (IF Has(body, "description")
        THEN IF body.description = 0
               THEN <<"La descripcion no puede estar vacia">>
             ELSE IF body.description < DescMinValidator \/ body.description > DescMaxLen
               THEN <<"La descripcion debe tener entre 10 y 500 caracteres">>
             ELSE <<>>
        ELSE <<>>)
  \o (IF Has(body, "price") /\ body.price < 0
        THEN <<"El precio debe ser un numero positivo">>
      ELSE <<>>)
  \o (IF Has(body, "stock") /\ body.stock < 0
        THEN <<"El stock debe ser un numero positivo">>
      ELSE <<>>)
  \o (IF Has(body, "category") /\ body.category \notin validCategories
        THEN <<"Categoria invalida">>
      ELSE <<>>)

validateStockUpdate(body) ==
  IF ~Has(body, "quantity") THEN <<"La cantidad es obligatoria">> ELSE <<>>

----------------------------------------------------------------------------
(* Persistence gateway: each operator is one store query *)

findById(s, id) == IF id \in DOMAIN s THEN s[id] ELSE Null

existsByName(s, name, excludeId) ==
  \E id \in DOMAIN s :
     /\ (excludeId = NullId \/ id # excludeId)
     /\ RegexMatch(name, s[id].name)

(* Product.save(): the document inserted under a fresh id *)
insertDoc(s, id, d) == [i \in DOMAIN s \cup {id} |-> IF i = id THEN d ELSE s[i]]

(* findByIdAndUpdate(id, updateData): the present schema fields replace the *)
(* stored ones                                                              *)
applyUpdate(d, updateData) ==
  [f \in DOMAIN d |-> IF Has(updateData, f) THEN updateData[f] ELSE d[f]]

repoUpdate(s, id, updateData) ==
  IF id \in DOMAIN s THEN [s EXCEPT ![id] = applyUpdate(@, updateData)] ELSE s

softDelete_remove(s, id) == [i \in DOMAIN s \ {id} |-> s[i]]

softDelete(s, id) ==
  IF id \in DOMAIN s THEN [s EXCEPT ![id].isActive = FALSE] ELSE s

hardDelete_soft(s, id) ==
  IF id \in DOMAIN s THEN [s EXCEPT ![id].isActive = FALSE] ELSE s

hardDelete(s, id) == [i \in DOMAIN s \ {id} |-> s[i]]

repoUpdateStock_set(s, id, quantity) ==
  IF id \in DOMAIN s THEN [s EXCEPT ![id].stock = quantity] ELSE s

(* findByIdAndUpdate(id, {$inc: {stock: quantity}}): update validators do   *)
(* not run on $inc                                                          *)
repoUpdateStock(s, id, quantity) ==
  IF id \in DOMAIN s THEN [s EXCEPT ![id].stock = @ + quantity] ELSE s

(* The document a findByIdAnd... call returns: the one stored, or null *)
WithId(s, id) ==
  IF id \in DOMAIN s
    THEN [f \in DOMAIN s[id] \cup {"id"} |-> IF f = "id" THEN id ELSE s[id][f]]
    ELSE Null

----------------------------------------------------------------------------
(* Requests.  A slot of req is one HTTP request being served:              *)
(*   kind     the route, id the :id parameter, body the JSON body;         *)
(*   pc       the repository call the request is suspended at;             *)
(*   product  the document the service read with findById;                *)
(*   res      the response written, Null until there is one.               *)

Idle ==
  [kind |-> "none", id |-> NullId, body |-> Null, pc |-> "idle",
   product |-> Null, res |-> Null]

(* The route's validation middlewares ran, then the controller called the  *)
(* service, which is suspended at its first repository call.               *)
Accept(r, kind, id, body, errors, firstPc) ==
  /\ req[r].pc = "idle"
  /\ req' = [req EXCEPT ![r] =
               IF errors # <<>>
                 THEN [kind |-> kind, id |-> id, body |-> body, pc |-> "done",
                       product |-> Null, res |-> errorHandler(ApiError(400, errors))]
                 ELSE [kind |-> kind, id |-> id, body |-> body, pc |-> firstPc,
                       product |-> Null, res |-> Null]]
  /\ UNCHANGED <<store, nextId, listVars, sideVars>>

(* A validation middleware threw something else than its ApiError: express *)
(* hands it to errorHandler and the controller is not called               *)
Fail(r, kind, id, body, error) ==
  /\ req[r].pc = "idle"
  /\ req' = [req EXCEPT ![r] =
               [kind |-> kind, id |-> id, body |-> body, pc |-> "done",
                product |-> Null, res |-> errorHandler(error)]]
  /\ UNCHANGED <<store, nextId, listVars, sideVars>>

(* The service threw: the controller's catch hands the error to errorHandler *)
Throw(r, error) ==
  req' = [req EXCEPT ![r].pc = "done", ![r].product = Null,
                        ![r].res = errorHandler(error)]

(* The service returned: the controller sends an ApiResponse *)
Send(r, statusCode, data) ==
  req' = [req EXCEPT ![r].pc = "done", ![r].product = Null,
                        ![r].res = ApiResponse(statusCode, data)]

At(r, kind, pc) == req[r].kind = kind /\ req[r].pc = pc

(* POST /api/products *)
PostProduct(r, Bodies) ==
  \E body \in Bodies :
     IF createTrimThrows(body) # ""
       THEN Fail(r, "create", NullId, body, TypeError(createTrimThrows(body)))
       ELSE Accept(r, "create", NullId, body, validateProductCreate(body),
                   "existsByName")

(* ProductService.createProduct up to its second await *)
duplicateStatus == 400

CreateExistsByName(r) ==
  /\ At(r, "create", "existsByName")
  /\ IF existsByName(store, req[r].body.name, NullId)
       THEN Throw(r, ApiError(duplicateStatus, <<"Ya existe un producto con ese nombre">>))
     ELSE IF req[r].body.price < MinPrice
       THEN Throw(r, ApiError(400, <<"El precio debe ser mayor a $0.01">>))
     ELSE req' = [req EXCEPT ![r].pc = "create"]
  /\ UNCHANGED <<store, nextId, listVars, sideVars>>

(* A save that inserts the document before its validation fails *)
CreateSave_insertThenValidate(r) ==
  /\ At(r, "create", "create")
  /\ nextId <= Cardinality(Ids) + MaxNew
  /\ store' = insertDoc(store, nextId, preSave(newProduct(req[r].body)))
  /\ nextId' = nextId + 1
  /\ IF schemaErrors(newProduct(req[r].body), TRUE) # {}
       THEN Throw(r, MongooseValidationError(schemaErrors(newProduct(req[r].body), TRUE)))
       ELSE Send(r, 201, WithId(store', nextId))
  /\ UNCHANGED <<listVars, sideVars>>

(* ProductRepository.create: schema validation, pre-save hook, insert *)
CreateSave(r) ==
  /\ At(r, "create", "create")
  /\ LET d == newProduct(req[r].body)
         errs == schemaErrors(d, TRUE)
     IN IF errs # {}
          THEN /\ Throw(r, MongooseValidationError(errs))
               /\ UNCHANGED <<store, nextId>>
          ELSE /\ nextId <= Cardinality(Ids) + MaxNew
               /\ store' = insertDoc(store, nextId, preSave(d))
               /\ nextId' = nextId + 1
               /\ Send(r, 201, WithId(store', nextId))
  /\ UNCHANGED <<listVars, sideVars>>

(* GET /api/products/:id *)
GetProduct(r) ==
  \E id \in RouteIds :
     Accept(r, "get", id, Null, validateMongoId(id), "findById")

GetFindById(r) ==
  /\ At(r, "get", "findById")
  /\ IF findById(store, req[r].id) = Null
       THEN Throw(r, ApiError(404, <<"Producto no encontrado">>))
       ELSE Send(r, 200, WithId(store, req[r].id))
  /\ UNCHANGED <<store, nextId, listVars, sideVars>>

(* PUT /api/products/:id *)
PutProduct(r, Bodies) ==
  \E id \in RouteIds, body \in Bodies :
     IF validateMongoId(id) = <<>> /\ updateTrimThrows(body) # ""
       THEN Fail(r, "update", id, body, TypeError(updateTrimThrows(body)))
       ELSE Accept(r, "update", id, body,
                   IF validateMongoId(id) # <<>> THEN validateMongoId(id)
                   ELSE validateProductUpdate(body),
                   "findById")

(* The price rule of updateProduct, then the await of repository.update *)
UpdatePriceRule(r) ==
  IF Has(req[r].body, "price") /\ req[r].body.price < MinPrice
    THEN Throw(r, ApiError(400, <<"El precio debe ser mayor a $0.01">>))
    ELSE req' = [req EXCEPT ![r].pc = "update"]

UpdateFindById(r) ==
  /\ At(r, "update", "findById")
  /\ LET existingProduct == findById(store, req[r].id)
     IN IF existingProduct = Null
          THEN Throw(r, ApiError(404, <<"Producto no encontrado">>))
        ELSE IF /\ Has(req[r].body, "name")
                /\ req[r].body.name # <<>>
                /\ req[r].body.name # existingProduct.name
          THEN req' = [req EXCEPT ![r].pc = "existsByName",
                                  ![r].product = existingProduct]
        ELSE UpdatePriceRule(r)
  /\ UNCHANGED <<store, nextId, listVars, sideVars>>

UpdateExistsByName(r) ==
  /\ At(r, "update", "existsByName")
  /\ IF existsByName(store, req[r].body.name, req[r].id)
       THEN Throw(r, ApiError(duplicateStatus, <<"Ya existe otro producto con ese nombre">>))
       ELSE UpdatePriceRule(r)
  /\ UNCHANGED <<store, nextId, listVars, sideVars>>

(* ProductRepository.update: findByIdAndUpdate with runValidators *)
UpdateWrite(r) ==
  /\ At(r, "update", "update")
  /\ LET errs == schemaErrors(req[r].body, FALSE)
     IN IF errs # {}
          THEN /\ Throw(r, MongooseValidationError(errs))
               /\ UNCHANGED store
          ELSE /\ store' = repoUpdate(store, req[r].id, req[r].body)
               /\ Send(r, 200, WithId(store', req[r].id))
  /\ UNCHANGED <<nextId, listVars, sideVars>>

(* DELETE /api/products/:id *)
DeleteProduct(r) ==
  \E id \in RouteIds :
     Accept(r, "delete", id, Null, validateMongoId(id), "findById")

DeleteFindById(r) ==
  /\ At(r, "delete", "findById")
  /\ LET product == findById(store, req[r].id)
     IN IF product = Null
          THEN Throw(r, ApiError(404, <<"Producto no encontrado">>))
        ELSE IF ~product.isActive
          THEN Throw(r, ApiError(400, <<"El producto ya esta inactivo">>))
        ELSE req' = [req EXCEPT ![r].pc = "softDelete", ![r].product = product]
  /\ UNCHANGED <<store, nextId, listVars, sideVars>>

DeleteSoftDelete(r) ==
  /\ At(r, "delete", "softDelete")
  /\ store' = softDelete(store, req[r].id)
  /\ Send(r, 200, WithId(store', req[r].id))
  /\ UNCHANGED <<nextId, listVars, sideVars>>

(* DELETE /api/products/:id/permanent *)
PermanentDeleteProduct(r) ==
  \E id \in RouteIds :
     Accept(r, "permanent", id, Null, validateMongoId(id), "findById")

PermanentFindById(r) ==
  /\ At(r, "permanent", "findById")
  /\ IF findById(store, req[r].id) = Null
       THEN Throw(r, ApiError(404, <<"Producto no encontrado">>))
       ELSE req' = [req EXCEPT ![r].pc = "hardDelete"]
  /\ UNCHANGED <<store, nextId, listVars, sideVars>>

PermanentHardDelete(r) ==
  /\ At(r, "permanent", "hardDelete")
  /\ store' = hardDelete(store, req[r].id)
  /\ Send(r, 200, [message |-> "Producto eliminado permanentemente"])
  /\ UNCHANGED <<nextId, listVars, sideVars>>

(* PATCH /api/products/:id/stock; the controller passes parseInt(quantity) *)
PatchStock(r, Quantities) ==
  \E id \in RouteIds, body \in {[quantity |-> q] : q \in Quantities} \cup {Null} :
     Accept(r, "stock", id, body,
            IF validateMongoId(id) # <<>> THEN validateMongoId(id)
            ELSE validateStockUpdate(body),
            "findById")

insufficientStock_unchecked(product, quantity) == FALSE

(* The check of ProductService.updateStock on the document it read *)
insufficientStock(product, quantity) == product.stock + quantity < 0

StockFindById(r) ==
  /\ At(r, "stock", "findById")
  /\ LET product == findById(store, req[r].id)
     IN IF product = Null
          THEN Throw(r, ApiError(404, <<"Producto no encontrado">>))
        ELSE IF insufficientStock(product, req[r].body.quantity)
          THEN Throw(r, ApiError(400, <<"Stock insuficiente">>))
        ELSE req' = [req EXCEPT ![r].pc = "updateStock", ![r].product = product]
  /\ UNCHANGED <<store, nextId, listVars, sideVars>>

(* A write of the stock computed from the document the service read *)
StockUpdateStock_fromRead(r) ==
  /\ At(r, "stock", "updateStock")
  /\ req[r].id \in DOMAIN store
  /\ store' = [store EXCEPT ![req[r].id].stock =
                                req[r].product.stock + req[r].body.quantity]
  /\ Send(r, 200, WithId(store', req[r].id))
  /\ UNCHANGED <<nextId, listVars, sideVars>>

StockUpdateStock(r) ==
  /\ At(r, "stock", "updateStock")
  /\ req[r].id \in DOMAIN store =>
        store[req[r].id].stock + req[r].body.quantity <= MaxStock
  /\ store' = repoUpdateStock(store, req[r].id, req[r].body.quantity)
  /\ Send(r, 200, WithId(store', req[r].id))
  /\ UNCHANGED <<nextId, listVars, sideVars>>

(* The response has been written; the slot serves the next request *)
Respond(r) ==
  /\ req[r].pc = "done"
  /\ req' = [req EXCEPT ![r] = Idle]
  /\ UNCHANGED <<store, nextId, listVars, sideVars>>

----------------------------------------------------------------------------
(* GET /api/products: the list.  coll is the sequence of the records that  *)
(* match the filter, in the order of the sort; lopts is the query string;  *)
(* ldeleted counts the records hard-deleted by other requests meanwhile.   *)

(* ProductController.getAllProducts: page and limit with their defaults *)
listOptions(query) ==
  [page |-> IF Has(query, "page") THEN query.page ELSE DefaultPage,
   limit |-> IF Has(query, "limit") THEN query.limit ELSE DefaultLimit]

skipOf_pageTimesLimit(options) == options.page * options.limit

skipOf(options) == (options.page - 1) * options.limit

Min(a, b) == IF a < b THEN a ELSE b

(* Product.find(filters).sort(sort).skip(skip).limit(limit) *)
findPage(records, skip, limit) ==
  SubSeq(records, skip + 1, Min(skip + limit, Len(records)))

(* Math.ceil(total / limit) *)
ceilDiv(total, limit) == (total + limit - 1) \div limit

hasMoreOf(skip, returned, total) == skip + returned < total

(* First await of ProductRepository.findAll: the page of records *)
ListFind ==
  /\ lpc = "find"
  /\ lproducts' = findPage(coll, skipOf(listOptions(lopts)), listOptions(lopts).limit)
  /\ lpc' = "countDocuments"
  /\ UNCHANGED <<coll, ldeleted, lopts, lresult, mainVars, sideVars>>

(* Second await of ProductRepository.findAll: the count, then the result *)
ListCount ==
  /\ lpc = "countDocuments"
  /\ LET options == listOptions(lopts)
         total == Len(coll)
     IN lresult' = [products |-> lproducts,
                    pagination |->
                      [total |-> total,
                       page |-> options.page,
                       totalPages |-> ceilDiv(total, options.limit),
                       hasMore |-> hasMoreOf(skipOf(options), Len(lproducts), total)]]
  /\ lpc' = "done"
  /\ UNCHANGED <<coll, ldeleted, lopts, lproducts, mainVars, sideVars>>

(* ProductRepository.hardDelete of one matching record by another request *)
ListHardDelete ==
  /\ lpc \in {"find", "countDocuments"}
  /\ ldeleted < MaxDeletes
  /\ \E i \in 1..Len(coll) :
        coll' = SubSeq(coll, 1, i - 1) \o SubSeq(coll, i + 1, Len(coll))
  /\ ldeleted' = ldeleted + 1
  /\ UNCHANGED <<lpc, lopts, lproducts, lresult, mainVars, sideVars>>

----------------------------------------------------------------------------
(* GET /api/products/statistics.  While the service is suspended, the      *)
(* product field of the request holds what its earlier awaits returned.    *)

LowStockThreshold == 10

(* The ids of a set in the order of sort({createdAt: -1}): ids are given   *)
(* out in the order of creation, so the newest record has the largest id.  *)
RECURSIVE sortDesc(_)
sortDesc(S) ==
  IF S = {} THEN <<>>
  ELSE LET m == CHOOSE x \in S : \A y \in S : y <= x
       IN <<m>> \o sortDesc(S \ {m})

(* Product.find({}).sort(sort): every stored record, newest first *)
findSorted(s) == [i \in 1..Cardinality(DOMAIN s) |-> s[sortDesc(DOMAIN s)[i]]]

(* The options of ProductRepository.findAll when it is called without any *)
findAllDefaults == [page |-> DefaultPage, limit |-> DefaultLimit]

(* ProductRepository.findLowStock(): threshold 10, active records only *)
findLowStock(s) ==
  {id \in DOMAIN s : s[id].stock <= LowStockThreshold /\ s[id].isActive}

(* products.filter(pred).length *)
filterLength(products, active) ==
  Cardinality({i \in 1..Len(products) : products[i].isActive = active})

(* products.reduce((sum, p) => sum + p.price * p.stock, 0) *)
RECURSIVE inventoryValue(_)
inventoryValue(products) ==
  IF products = <<>> THEN 0
  ELSE products[1].price * products[1].stock + inventoryValue(Tail(products))

(* The forEach that groups by category: one counter per category seen *)
byCategory(products) ==
  [c \in {products[i].category : i \in 1..Len(products)} |->
     Cardinality({i \in 1..Len(products) : products[i].category = c})]

(* The statistics object of ProductService.getStatistics *)
statisticsOf(allProducts, lowStock) ==
  [totalProducts |-> allProducts.pagination.total,
   activeProducts |-> filterLength(allProducts.products, TRUE),
   inactiveProducts |-> filterLength(allProducts.products, FALSE),
   lowStockProducts |-> Cardinality(lowStock),
   totalInventoryValue |-> inventoryValue(allProducts.products),
   byCategory |-> byCategory(allProducts.products)]

(* The route has no validation middleware *)
GetStatistics(r) == Accept(r, "statistics", NullId, Null, <<>>, "find")

(* findAll(): first await, the page of the default options *)
StatisticsFind(r) ==
  /\ At(r, "statistics", "find")
  /\ req' = [req EXCEPT
               ![r].pc = "countDocuments",
               ![r].product =
                  [products |-> findPage(findSorted(store), skipOf(findAllDefaults),
                                         findAllDefaults.limit)]]
  /\ UNCHANGED <<store, nextId, listVars, sideVars>>

(* findAll(): second await, the count, then the result *)
StatisticsCount(r) ==
  /\ At(r, "statistics", "countDocuments")
  /\ LET products == req[r].product.products
         total == Cardinality(DOMAIN store)
     IN req' = [req EXCEPT
                  ![r].pc = "findLowStock",
                  ![r].product =
                     [products |-> products,
                      pagination |->
                        [total |-> total,
                         page |-> findAllDefaults.page,
                         totalPages |-> ceilDiv(total, findAllDefaults.limit),
                         hasMore |-> hasMoreOf(skipOf(findAllDefaults),
                                               Len(products), total)]]]
  /\ UNCHANGED <<store, nextId, listVars, sideVars>>

(* findLowStock(), then the statistics are computed and sent *)
StatisticsFindLowStock(r) ==
  /\ At(r, "statistics", "findLowStock")
  /\ Send(r, 200, statisticsOf(req[r].product, findLowStock(store)))
  /\ UNCHANGED <<store, nextId, listVars, sideVars>>

----------------------------------------------------------------------------
(* Initial states *)

UniqueNames(s) ==
  \A i, j \in DOMAIN s : i # j => ~EqualIgnoreCase(s[i].name, s[j].name)

(* A stored document: it passed the schema when it was saved *)
Doc(name, stock, isActive) ==
  [name |-> name, description |-> 25, price |-> 9990, category |-> "Ropa",
   stock |-> stock, isActive |-> isActive]

NoList ==
  /\ coll = <<>>
  /\ ldeleted = 0
  /\ lpc = "off"
  /\ lopts = Null
  /\ lproducts = <<>>
  /\ lresult = Null

(* The process is up and serving, and no shutdown has been asked for *)
NoDown ==
  /\ server = "listening"
  /\ conns = 0
  /\ db = "connected"
  /\ proc = "running"
  /\ downs = 0
  /\ phase = [i \in 1..MaxShutdowns |-> "none"]
  /\ timer = [i \in 1..MaxShutdowns |-> FALSE]

NoSide ==
  /\ err = Null
  /\ response = Null
  /\ NoDown

InitMain(Docs) ==
  /\ \E D \in SUBSET Ids :
        store \in {s \in [D -> Docs] : UniqueNames(s)}
  /\ nextId = Cardinality(Ids) + 1
  /\ req = [r \in Reqs |-> Idle]
  /\ NoList
  /\ NoSide

ListQueries ==
       {[page |-> p, limit |-> l] : p \in 1..MaxPage, l \in 1..MaxLimit}
  \cup {[page |-> p] : p \in 1..MaxPage}
  \cup {[limit |-> l] : l \in 1..MaxLimit}
  \cup {[sortBy |-> "createdAt"]}

InitList ==
  /\ store = <<>>
  /\ nextId = Cardinality(Ids) + 1
  /\ req = [r \in Reqs |-> Idle]
  /\ \E n \in 0..MaxRecords : coll = [i \in 1..n |-> n + 1 - i]
  /\ ldeleted = 0
  /\ lpc = "find"
  /\ lopts \in ListQueries
  /\ lproducts = <<>>
  /\ lresult = Null
  /\ NoSide

NextList == ListFind \/ ListCount \/ ListHardDelete

SpecList == InitList /\ [][NextList]_vars

----------------------------------------------------------------------------
(* Request bodies *)

(* The body of the documented example, in this model's representation *)
ExampleBody ==
  [name |-> Widget, description |-> 25, price |-> 9990,
   category |-> "electronics", stock |-> 5]

CreatePrices == {0 - MinPrice, 0, 5, MinPrice, 9990}

CreateBodies ==
       {[ExampleBody EXCEPT !.name = n, !.price = p] :
           n \in RequestNames, p \in CreatePrices}
  \cup {[ExampleBody EXCEPT !.category = c] : c \in {"Ropa", "toys"}}
  \cup {[ExampleBody EXCEPT !.description = d] : d \in {0, 5, 15}}
  \cup {[name |-> Gadget, description |-> 25, price |-> 9990,
         category |-> "electronics"],
        [name |-> Wi, description |-> 5, category |-> "toys", stock |-> -1],
        [description |-> 25, price |-> 9990, category |-> "electronics"]}

Deltas == (0 - MaxDelta)..MaxDelta

StockBodies == {[stock |-> s] : s \in (-1)..MaxStock}

RenameBodies == {[name |-> n] : n \in RequestNames}

ActiveBodies == {[isActive |-> b] : b \in BOOLEAN}

PriceBodies == {[price |-> p] : p \in CreatePrices}

UpdateBodies == StockBodies \cup RenameBodies \cup ActiveBodies \cup PriceBodies

----------------------------------------------------------------------------
(* The whole request surface.  The specifications after it restrict Next   *)
(* to the routes, and the bodies, that read or write the fields a group of *)
(* claims is about.                                                        *)

AllDocs ==
  {Doc(n, st, a) : n \in StoredNames, st \in 0..MaxStock, a \in BOOLEAN}

Init == InitMain(AllDocs)

Next ==
  \E r \in Reqs :
     \/ PostProduct(r, CreateBodies)
     \/ CreateExistsByName(r)
     \/ CreateSave(r)
     \/ GetProduct(r)
     \/ GetFindById(r)
     \/ PutProduct(r, UpdateBodies)
     \/ UpdateFindById(r)
     \/ UpdateExistsByName(r)
     \/ UpdateWrite(r)
     \/ DeleteProduct(r)
     \/ DeleteFindById(r)
     \/ DeleteSoftDelete(r)
     \/ PermanentDeleteProduct(r)
     \/ PermanentFindById(r)
     \/ PermanentHardDelete(r)
     \/ PatchStock(r, Deltas)
     \/ StockFindById(r)
     \/ StockUpdateStock(r)
     \/ GetStatistics(r)
     \/ StatisticsFind(r)
     \/ StatisticsCount(r)
     \/ StatisticsFindLowStock(r)
     \/ Respond(r)

Spec == Init /\ [][Next]_vars

----------------------------------------------------------------------------
(* Stock: create, update of the stock field, stock adjustment *)

StockDocs == {Doc(n, st, TRUE) : n \in {Widget, Gadget}, st \in 0..MaxStock}

InitStock == InitMain(StockDocs)

NextStock ==
  \E r \in Reqs :
     \/ PostProduct(r, {ExampleBody})
     \/ CreateExistsByName(r)
     \/ CreateSave(r)
     \/ PutProduct(r, StockBodies)
     \/ UpdateFindById(r)
     \/ UpdateWrite(r)
     \/ PatchStock(r, Deltas)
     \/ StockFindById(r)
     \/ StockUpdateStock(r)
     \/ PermanentDeleteProduct(r)
     \/ PermanentFindById(r)
     \/ PermanentHardDelete(r)
     \/ Respond(r)

SpecStock == InitStock /\ [][NextStock]_vars

----------------------------------------------------------------------------
(* Claims about stock *)

StockRequest(r) == req[r].kind = "stock"

(* Request r takes a step *)
Steps(r) == req'[r] # req[r]

(* The write of a stock adjustment whose read is out of date: another      *)
(* request changed the product's stock after this one read it.             *)
StaleStockWrite ==
  \E r \in Reqs :
     /\ At(r, "stock", "updateStock")
     /\ Steps(r)
     /\ req[r].id \in DOMAIN store
     /\ store[req[r].id].stock # req[r].product.stock

C4_StockAdjustment ==
  [][\A r \in Reqs :
        /\ (At(r, "stock", "findById") /\ Steps(r) /\ req[r].id \in DOMAIN store) =>
              IF store[req[r].id].stock + req[r].body.quantity < 0
                THEN /\ req'[r].pc = "done"
                     /\ req'[r].res.statusCode >= 400
                     /\ ~req'[r].res.success
                     /\ store' = store
                ELSE /\ req'[r].pc = "updateStock"
                     /\ store' = store
        /\ (At(r, "stock", "updateStock") /\ Steps(r) /\ req[r].id \in DOMAIN store) =>
              /\ req'[r].pc = "done"
              /\ req'[r].res.statusCode = 200
              /\ req'[r].res.success
              /\ store'[req[r].id].stock = store[req[r].id].stock + req[r].body.quantity
              /\ req'[r].res.data.stock = store'[req[r].id].stock
              /\ \A id \in DOMAIN store : id # req[r].id => store'[id] = store[id]
  ]_vars

(* One stock adjustment was rejected for insufficient stock while another  *)
(* one was answered with success.                                          *)
C4_Witness ==
  \E r, q \in Reqs :
     /\ StockRequest(r) /\ req[r].pc = "done"
     /\ req[r].res.statusCode = 400
     /\ req[r].res.message = <<"Stock insuficiente">>
     /\ StockRequest(q) /\ req[q].pc = "done"
     /\ req[q].res.statusCode = 200
     /\ req[q].body.quantity # 0
     /\ req[q].res.data # Null

----------------------------------------------------------------------------
(* Names: create and rename *)

NameDocs == {Doc(n, 0, TRUE) : n \in StoredNames}

InitNames == InitMain(NameDocs)

NextNames ==
  \E r \in Reqs :
     \/ PostProduct(r, {ExampleBody, [ExampleBody EXCEPT !.name = widget],
                        [ExampleBody EXCEPT !.name = WidPlus]})
     \/ CreateExistsByName(r)
     \/ CreateSave(r)
     \/ PutProduct(r, RenameBodies)
     \/ UpdateFindById(r)
     \/ UpdateExistsByName(r)
     \/ UpdateWrite(r)
     \/ Respond(r)

SpecNames == InitNames /\ [][NextNames]_vars

(* Create alone: the store is as it was opened *)
NextCreate ==
  \E r \in Reqs :
     \/ PostProduct(r, CreateBodies)
     \/ CreateExistsByName(r)
     \/ CreateSave(r)
     \/ Respond(r)

SpecCreate == InitNames /\ [][NextCreate]_vars

(* Life cycle: fetch, soft delete, hard delete, update of isActive, stock *)
LifeDocs == {Doc(n, 1, a) : n \in {Widget, Gadget}, a \in BOOLEAN}

InitLife == InitMain(LifeDocs)

NextLife ==
  \E r \in Reqs :
     \/ PostProduct(r, {ExampleBody})
     \/ CreateExistsByName(r)
     \/ CreateSave(r)
     \/ GetProduct(r)
     \/ GetFindById(r)
     \/ PutProduct(r, ActiveBodies)
     \/ UpdateFindById(r)
     \/ UpdateWrite(r)
     \/ DeleteProduct(r)
     \/ DeleteFindById(r)
     \/ DeleteSoftDelete(r)
     \/ PermanentDeleteProduct(r)
     \/ PermanentFindById(r)
     \/ PermanentHardDelete(r)
     \/ PatchStock(r, {0 - MaxDelta})
     \/ StockFindById(r)
     \/ StockUpdateStock(r)
     \/ Respond(r)

SpecLife == InitLife /\ [][NextLife]_vars

----------------------------------------------------------------------------
(* Claims about names and create *)

NameTaken(s, name) == \E id \in DOMAIN s : EqualIgnoreCase(s[id].name, name)

(* C2: in every reachable state no two stored products have names that are *)
(* equal ignoring case.                                                    *)
C2_UniqueNames == UniqueNames(store)

(* C3: a create request whose name equals, ignoring case, the name of a    *)
(* stored product is answered with status 409 and adds no product (stated  *)
(* for a body that passes request validation and the price rule, so that   *)
(* the duplicate name is the only thing wrong with it).                    *)
C3_DuplicateCreateConflicts ==
  \A r \in Reqs :
     (/\ req[r].kind = "create" /\ req[r].pc = "done"
      /\ validateProductCreate(req[r].body) = <<>>
      /\ req[r].body.price >= MinPrice
      /\ NameTaken(store, req[r].body.name)) =>
          /\ req[r].res.statusCode = 409
          /\ DOMAIN store \subseteq Ids

(* C7: a create request with an otherwise valid payload and a unique name  *)
(* is rejected when its price is below 0.01 and succeeds when its price is *)
(* exactly 0.01.                                                           *)
C7_MinimumPrice ==
  \A r \in Reqs :
     (/\ req[r].kind = "create" /\ req[r].pc = "done"
      /\ Has(req[r].body, "price")
      /\ validateProductCreate([req[r].body EXCEPT !.price = MinPrice]) = <<>>
      /\ ~NameTaken(store, req[r].body.name)) =>
          /\ req[r].body.price < MinPrice => ~req[r].res.success
          /\ req[r].body.price = MinPrice => req[r].res.success

(* C8: a create request that passes request validation and the business    *)
(* rules is persisted: the response is 201 and its data holds a generated  *)
(* id and isActive = true.                                                 *)
C8_ValidCreatePersists ==
  \A r \in Reqs :
     (/\ req[r].kind = "create" /\ req[r].pc = "done"
      /\ validateProductCreate(req[r].body) = <<>>
      /\ req[r].body.price >= MinPrice
      /\ ~NameTaken(store, req[r].body.name)) =>
          /\ req[r].res.statusCode = 201
          /\ Has(req[r].res.data, "id")
          /\ req[r].res.data.isActive = TRUE

----------------------------------------------------------------------------
(* Claims about the life cycle *)

(* Another soft delete of the same product has been answered with success *)
(* and its request is still open.                                          *)
OtherDeleteSucceeded(r) ==
  \E q \in Reqs \ {r} :
     /\ req[q].kind = "delete" /\ req[q].pc = "done"
     /\ req[q].id = req[r].id
     /\ req[q].res.success

(* C5 as claimed: a soft delete of a product that is already inactive is   *)
(* answered with an error, also when two soft deletes of the same product  *)
(* run concurrently: once one of them has succeeded, the write of the      *)
(* other, on the product that is now inactive, is not answered with        *)
(* success.                                                                *)
C5_InactiveDeleteFails ==
  [][\A r \in Reqs :
        (At(r, "delete", "softDelete") /\ Steps(r)
           /\ OtherDeleteSucceeded(r)
           /\ req[r].id \in DOMAIN store
           /\ ~store[req[r].id].isActive) =>
              ~req'[r].res.success
  ]_vars

(* C5 as amended: a soft delete that finds the product inactive is         *)
(* answered with an error and changes nothing; a soft delete that finds it *)
(* active goes on to the write, which sets isActive to false, keeps the    *)
(* record and every other field, and answers with success; fetch-by-id     *)
(* returns a stored record whether it is active or not.                    *)
C5_SoftDelete ==
  [][\A r \in Reqs :
        /\ (At(r, "delete", "findById") /\ Steps(r) /\ req[r].id \in DOMAIN store) =>
              IF store[req[r].id].isActive
                THEN req'[r].pc = "softDelete" /\ store' = store
                ELSE /\ req'[r].pc = "done"
                     /\ req'[r].res.statusCode = 400
                     /\ store' = store
        /\ (At(r, "delete", "softDelete") /\ Steps(r) /\ req[r].id \in DOMAIN store) =>
              /\ store' = [store EXCEPT ![req[r].id].isActive = FALSE]
              /\ req'[r].res.statusCode = 200
              /\ req'[r].res.data = WithId(store', req[r].id)
        /\ (At(r, "get", "findById") /\ Steps(r) /\ req[r].id \in DOMAIN store) =>
              /\ req'[r].res.statusCode = 200
              /\ req'[r].res.data = WithId(store, req[r].id)
              /\ store' = store
  ]_vars

(* A soft delete succeeded and a later fetch-by-id of the same product     *)
(* returned the inactive record.                                           *)
C5_Witness ==
  \E r, q \in Reqs :
     /\ req[r].kind = "delete" /\ req[r].pc = "done"
     /\ req[r].res.statusCode = 200
     /\ req[r].res.data # Null
     /\ ~req[r].res.data.isActive
     /\ req[q].kind = "get" /\ req[q].pc = "done"
     /\ req[q].id = req[r].id
     /\ req[q].res.statusCode = 200
     /\ ~req[q].res.data.isActive

(* C6: a successful hard delete removes the record; a removed id is never  *)
(* stored again; and a fetch, update, soft delete, hard delete or stock    *)
(* adjustment that looks up an id that is not stored is answered with 404  *)
(* and changes nothing.                                                    *)
C6_HardDelete ==
  [][/\ \A r \in Reqs :
          /\ (At(r, "permanent", "hardDelete") /\ Steps(r)) =>
                /\ req[r].id \notin DOMAIN store'
                /\ req'[r].res.statusCode = 200
          /\ (/\ req[r].kind \in {"get", "update", "delete", "permanent", "stock"}
              /\ req[r].pc = "findById" /\ Steps(r)
              /\ req[r].id \notin DOMAIN store) =>
                /\ req'[r].pc = "done"
                /\ req'[r].res.statusCode = 404
                /\ store' = store
     /\ \A id \in Ids : id \notin DOMAIN store => id \notin DOMAIN store'
  ]_vars

(* A hard delete succeeded and a later request for the same id got 404 *)
C6_Witness ==
  \E r, q \in Reqs :
     /\ req[r].kind = "permanent" /\ req[r].pc = "done"
     /\ req[r].res.statusCode = 200
     /\ req[q].kind \in {"get", "update", "delete", "permanent", "stock"}
     /\ req[q].pc = "done"
     /\ req[q].id = req[r].id
     /\ req[q].res.statusCode = 404
     /\ req[r].id \notin DOMAIN store

(* C10: once a stored product's isActive is false, no request makes it     *)
(* true again.                                                             *)
C10_NoRestore ==
  [][\A id \in DOMAIN store :
        (~store[id].isActive /\ id \in DOMAIN store') => ~store'[id].isActive
  ]_vars

----------------------------------------------------------------------------
(* Claims about the list *)

Max(a, b) == IF a > b THEN a ELSE b

----------------------------------------------------------------------------
(* Statistics: the store holds up to MaxStored records and is only read *)

MaxStored == 12

(* The name of the i-th record: "Widget" followed by i times "x" *)
StatName(i) == Widget \o [j \in 1..i |-> "x"]

StatDoc(i, inactive) ==
  [name |-> StatName(i), description |-> 25, price |-> 500 * i,
   category |-> IF i % 2 = 0 THEN "Ropa" ELSE "Hogar",
   stock |-> i % 3, isActive |-> i \notin inactive]

InitStats ==
  /\ \E n \in 0..MaxStored, k \in 1..4 :
        store = [i \in 1..n |-> StatDoc(i, {j \in 1..n : j % k = 0})]
  /\ nextId = Cardinality(DOMAIN store) + 1
  /\ req = [r \in Reqs |-> Idle]
  /\ NoList
  /\ NoSide

NextStats ==
  \E r \in Reqs :
     \/ GetStatistics(r)
     \/ StatisticsFind(r)
     \/ StatisticsCount(r)
     \/ StatisticsFindLowStock(r)
     \/ Respond(r)

SpecStats == InitStats /\ [][NextStats]_vars

(* The sum of price * stock over the records of s with an id in S *)
RECURSIVE ValueOf(_, _)
ValueOf(s, S) ==
  IF S = {} THEN 0
  ELSE LET id == CHOOSE x \in S : TRUE
       IN s[id].price * s[id].stock + ValueOf(s, S \ {id})

(* The sum of the counters of f over the keys in S *)
RECURSIVE SumCounts(_, _)
SumCounts(f, S) ==
  IF S = {} THEN 0
  ELSE LET c == CHOOSE x \in S : TRUE
       IN f[c] + SumCounts(f, S \ {c})

(* C11: for every store content (the store is not written while the        *)
(* statistics are computed) the statistics report totalProducts = number   *)
(* of stored products, activeProducts and inactiveProducts = the numbers   *)
(* of stored products with isActive true and false, which add up to        *)
(* totalProducts, totalInventoryValue = the sum of price * stock over all  *)
(* stored products, and per-category counts that add up to totalProducts.  *)
C11_Statistics ==
  \A r \in Reqs :
     (req[r].kind = "statistics" /\ req[r].pc = "done") =>
        LET d == req[r].res.data
        IN /\ d.totalProducts = Cardinality(DOMAIN store)
           /\ d.activeProducts = Cardinality({id \in DOMAIN store : store[id].isActive})
           /\ d.inactiveProducts = Cardinality({id \in DOMAIN store : ~store[id].isActive})
           /\ d.activeProducts + d.inactiveProducts = d.totalProducts
           /\ d.totalInventoryValue = ValueOf(store, DOMAIN store)
           /\ SumCounts(d.byCategory, DOMAIN d.byCategory) = d.totalProducts

----------------------------------------------------------------------------
(* Update alone: renames, prices and both *)

UpdateRuleBodies ==
       {[name |-> n] : n \in {widget, Gadget, WidPlus}}
  \cup {[price |-> p] : p \in {0 - MinPrice, 5, MinPrice}}
  \cup {[name |-> Gadget, price |-> 5]}

NextUpdate ==
  \E r \in Reqs :
     \/ PutProduct(r, UpdateRuleBodies)
     \/ UpdateFindById(r)
     \/ UpdateExistsByName(r)
     \/ UpdateWrite(r)
     \/ Respond(r)

SpecUpdate == InitNames /\ [][NextUpdate]_vars

(* Another stored product has this name, ignoring case *)
NameTakenByOther(s, name, id) ==
  \E other \in DOMAIN s \ {id} : EqualIgnoreCase(s[other].name, name)

Rejected(r) == req'[r].pc = "done" /\ ~req'[r].res.success

(* C12: the steps of an update before its write change no stored product;  *)
(* the lookup of an id that is not stored is answered with 404; the check  *)
(* of a new name that another stored product has, ignoring case, is        *)
(* answered with an error; and an update whose payload has a price below   *)
(* 0.01 never goes on to the write.                                        *)
C12_UpdateRejections ==
  [][\A r \in Reqs :
        (req[r].kind = "update" /\ req[r].pc \in {"findById", "existsByName"}
           /\ Steps(r)) =>
           /\ store' = store
           /\ (req[r].pc = "findById" /\ req[r].id \notin DOMAIN store) =>
                 Rejected(r) /\ req'[r].res.statusCode = 404
           /\ (/\ req[r].pc = "existsByName"
               /\ NameTakenByOther(store, req[r].body.name, req[r].id)) =>
                 Rejected(r)
           /\ (Has(req[r].body, "price") /\ req[r].body.price < MinPrice) =>
                 \/ Rejected(r)
                 \/ req[r].pc = "findById" /\ req'[r].pc = "existsByName"
  ]_vars

----------------------------------------------------------------------------
(* Error normalization at the handler boundary: err is the error handed to *)
(* next(error), response the response errorHandler writes for it.          *)

ApiErrors ==
  {ApiError(s, m) : s \in {400, 404, 409, 500},
                    m \in {<<"Producto no encontrado">>, <<"Stock insuficiente">>,
                           <<"ID de producto invalido">>,
                           <<"El nombre es obligatorio", "El precio es obligatorio">>}}

(* Errors of the store: schema validation, cast, duplicate key, and one    *)
(* the handler does not recognize                                          *)
StoreErrors ==
       {MongooseValidationError(paths) :
           paths \in SUBSET {"name", "description", "price", "category", "stock"} \ {{}}}
  \cup {[name |-> "CastError", path |-> p, message |-> <<"Cast failed">>] :
           p \in {"_id", "price", "stock", "isActive"}}
  \cup {[name |-> "MongoServerError", code |-> 11000, keyPattern |-> <<f>>,
         message |-> <<"E11000 duplicate key error">>] : f \in {"name", "_id"}}
  \cup {[name |-> "MongoNetworkError", message |-> <<"connection closed">>],
        [name |-> "MongoServerError", code |-> 50, message |-> <<"operation exceeded time limit">>]}

(* Errors of the program itself and of the body parsers of express, which  *)
(* carry a statusCode of their own                                         *)
OtherErrors ==
  {[name |-> "TypeError", message |-> <<"Cannot read properties of null">>],
   [name |-> "Error", message |-> <<>>],
   [name |-> "SyntaxError", statusCode |-> 400, message |-> <<"Unexpected token in JSON">>],
   [name |-> "PayloadTooLargeError", statusCode |-> 413,
    message |-> <<"request entity too large">>]}

HandlerErrors == ApiErrors \cup StoreErrors \cup OtherErrors

InitErrors ==
  /\ store = <<>>
  /\ nextId = Cardinality(Ids) + 1
  /\ req = [r \in Reqs |-> Idle]
  /\ NoList
  /\ err \in HandlerErrors
  /\ response = Null
  /\ NoDown

(* errorHandler(err, req, res, next) *)
HandleError ==
  /\ response = Null
  /\ response' = errorHandler(err)
  /\ UNCHANGED <<err, mainVars, listVars, downVars>>

(* The next error reaches the handler boundary *)
NextError ==
  /\ response # Null
  /\ err' \in HandlerErrors
  /\ response' = Null
  /\ UNCHANGED <<mainVars, listVars, downVars>>

NextErrors == HandleError \/ NextError

SpecErrors == InitErrors /\ [][NextErrors]_vars

Recognized(e) ==
  \/ e.name \in {"ValidationError", "CastError", "ApiError"}
  \/ Has(e, "code") /\ e.code = 11000

(* What C13 says of every error but an unrecognized one: one status code   *)
(* and one message, 400 for a document validation error and for a cast     *)
(* error, 409 for a duplicate key, an ApiError's own status code and       *)
(* message; no field of the error but these is written.                    *)
NormalizedRecognized ==
  /\ DOMAIN response = {"statusCode", "success", "message", "data"}
  /\ response.success = FALSE
  /\ response.data = Null
  /\ response.message # <<>>
  /\ err.name = "ValidationError" => response.statusCode = 400
  /\ err.name = "CastError" => response.statusCode = 400
  /\ (Has(err, "code") /\ err.code = 11000) => response.statusCode = 409
  /\ err.name = "ApiError" =>
        response.statusCode = err.statusCode /\ response.message = err.message

----------------------------------------------------------------------------
(* The process: startServer, the Database singleton and gracefulShutdown.  *)
(*   server  "listening", "closing" (close() was called, connections are   *)
(*           still open) or "closed" (the 'close' event was emitted);      *)
(*   conns   the number of open HTTP connections;                          *)
(*   db      "connecting", "connected", "failed" or "closed";              *)
(*   proc    "running", "exit0" or "exit1";                                *)
(*   downs   the number of calls of gracefulShutdown so far;               *)
(*   phase   where the i-th call is; timer whether its setTimeout is armed.*)

Signals == {"SIGTERM", "SIGINT", "uncaughtException", "unhandledRejection"}

Running == proc = "running"

(* Database._connect: mongoose.connect resolved, this.connection is set *)
DbConnected ==
  /\ Running
  /\ db = "connecting"
  /\ db' = "connected"
  /\ UNCHANGED <<server, conns, proc, downs, phase, timer, mainVars, listVars, errVars>>

(* Database._connect: mongoose.connect rejected, the catch logs the error *)
DbConnectFailed ==
  /\ Running
  /\ db = "connecting"
  /\ db' = "failed"
  /\ UNCHANGED <<server, conns, proc, downs, phase, timer, mainVars, listVars, errVars>>

(* A client connects to the listening server *)
OpenConnection ==
  /\ Running
  /\ server = "listening"
  /\ conns < MaxConns
  /\ conns' = conns + 1
  /\ UNCHANGED <<server, db, proc, downs, phase, timer, mainVars, listVars, errVars>>

(* A client ends its connection *)
EndConnection ==
  /\ Running
  /\ conns > 0
  /\ conns' = conns - 1
  /\ UNCHANGED <<server, db, proc, downs, phase, timer, mainVars, listVars, errVars>>

(* process.on(signal, ...) calls gracefulShutdown: server.close(callback)  *)
(* stops the server from accepting, and the forced-exit timer is armed     *)
GracefulShutdown(signal) ==
  /\ Running
  /\ downs < MaxShutdowns
  /\ downs' = downs + 1
  /\ server' = IF server = "listening" THEN "closing" ELSE server
  /\ phase' = [phase EXCEPT ![downs + 1] = signal]
  /\ timer' = [timer EXCEPT ![downs + 1] = TRUE]
  /\ UNCHANGED <<conns, db, proc, mainVars, listVars, errVars>>

(* The server emits 'close' once it has no open connection *)
ServerClosed ==
  /\ Running
  /\ server = "closing"
  /\ conns = 0
  /\ server' = "closed"
  /\ UNCHANGED <<conns, db, proc, downs, phase, timer, mainVars, listVars, errVars>>

closeEmitted_early == TRUE

(* The callback of server.close runs on the 'close' event *)
closeEmitted == server = "closed"

(* Database.disconnect tests this.connection, which _connect has set *)
connectionSet == db \in {"connected", "closed"}

(* The callback of server.close up to its await: database.disconnect()     *)
(* calls mongoose.disconnect() when this.connection is set, and returns at *)
(* once when it is not, after which the callback exits with 0              *)
CloseCallback(i) ==
  /\ Running
  /\ phase[i] \in Signals
  /\ closeEmitted
  /\ IF connectionSet
       THEN /\ phase' = [phase EXCEPT ![i] = "disconnecting"]
            /\ UNCHANGED proc
       ELSE /\ phase' = [phase EXCEPT ![i] = "exited"]
            /\ proc' = "exit0"
  /\ UNCHANGED <<server, conns, db, downs, timer, mainVars, listVars, errVars>>

(* mongoose.disconnect() resolved: process.exit(0) *)
DisconnectResolved(i) ==
  /\ Running
  /\ phase[i] = "disconnecting"
  /\ db' = "closed"
  /\ phase' = [phase EXCEPT ![i] = "exited"]
  /\ proc' = "exit0"
  /\ UNCHANGED <<server, conns, downs, timer, mainVars, listVars, errVars>>

(* mongoose.disconnect() rejected: the catch calls process.exit(1) *)
DisconnectRejected(i) ==
  /\ Running
  /\ phase[i] = "disconnecting"
  /\ phase' = [phase EXCEPT ![i] = "exited"]
  /\ proc' = "exit1"
  /\ UNCHANGED <<server, conns, db, downs, timer, mainVars, listVars, errVars>>

(* The setTimeout of gracefulShutdown fires: process.exit(1) *)
ForcedExit(i) ==
  /\ Running
  /\ timer[i]
  /\ timer' = [timer EXCEPT ![i] = FALSE]
  /\ proc' = "exit1"
  /\ UNCHANGED <<server, conns, db, downs, phase, mainVars, listVars, errVars>>

InitShutdown ==
  /\ store = <<>>
  /\ nextId = Cardinality(Ids) + 1
  /\ req = [r \in Reqs |-> Idle]
  /\ NoList
  /\ err = Null
  /\ response = Null
  /\ server = "listening"
  /\ conns = 0
  /\ db = "connecting"
  /\ proc = "running"
  /\ downs = 0
  /\ phase = [i \in 1..MaxShutdowns |-> "none"]
  /\ timer = [i \in 1..MaxShutdowns |-> FALSE]

NextShutdown ==
  \/ DbConnected
  \/ DbConnectFailed
  \/ OpenConnection
  \/ EndConnection
  \/ \E signal \in Signals : GracefulShutdown(signal)
  \/ ServerClosed
  \/ \E i \in 1..MaxShutdowns :
        \/ CloseCallback(i)
        \/ DisconnectResolved(i)
        \/ DisconnectRejected(i)
        \/ ForcedExit(i)

(* An armed timer fires unless the process has exited before *)
SpecShutdown ==
  /\ InitShutdown
  /\ [][NextShutdown]_vars
  /\ \A i \in 1..MaxShutdowns : WF_vars(ForcedExit(i))

(* The order of the shutdown sequence *)
ShutdownOrder ==
  /\ (\E i \in 1..MaxShutdowns : phase[i] \in {"disconnecting", "exited"}) =>
        server = "closed"
  /\ db = "closed" => server = "closed"
  /\ proc # "running" => downs > 0 /\ server # "listening"
  /\ proc = "exit0" => server = "closed" /\ db # "connected"

(* C14: after a signal or a process-level fault the server stops accepting *)
(* connections, the store connection is closed only after the server has   *)
(* closed, the process exits with 0 only after both, no exit comes before  *)
(* the server stopped accepting; and once gracefulShutdown has been called *)
(* the process eventually exits.                                           *)
C14_GracefulShutdown ==
  /\ []ShutdownOrder
  /\ (downs > 0) ~> (proc # "running")

(* After one call of gracefulShutdown the server closed, then the store    *)
(* connection was closed, then the process exited with 0.                  *)
C14_Witness ==
  /\ phase[1] = "exited"
  /\ downs = 1
  /\ server = "closed"
  /\ db = "closed"
  /\ proc = "exit0"

(* A connection stayed open and the timer forced the exit *)
C14_ForcedWitness ==
  /\ server = "closing"
  /\ conns > 0
  /\ proc = "exit1"

----------------------------------------------------------------------------
(* Request validation of create and update payloads *)

ValidateCreateBodies ==
  {ExampleBody,
   [ExampleBody EXCEPT !.name = Wi],
   [ExampleBody EXCEPT !.price = 0 - MinPrice, !.stock = 0 - 1],
   [ExampleBody EXCEPT !.name = JsonNull],
   [ExampleBody EXCEPT !.name = Number123],
   [ExampleBody EXCEPT !.description = NoLength],
   [name |-> Wi, description |-> 5, category |-> "toys", stock |-> 0 - 1],
   [description |-> 25, price |-> 9990, category |-> "electronics"]}

ValidateUpdateBodies ==
  {[stock |-> 1],
   [price |-> 5],
   [name |-> Gadget],
   [name |-> Wid],
   [name |-> Wi],
   [name |-> <<>>],
   [name |-> JsonNull],
   [name |-> Number123],
   [description |-> NoLength],
   [name |-> Wi, description |-> 5, price |-> 0 - MinPrice, stock |-> 0 - 1,
    category |-> "toys"]}

NextValidate ==
  \E r \in Reqs :
     \/ PostProduct(r, ValidateCreateBodies)
     \/ CreateExistsByName(r)
     \/ CreateSave(r)
     \/ PutProduct(r, ValidateUpdateBodies)
     \/ UpdateFindById(r)
     \/ UpdateExistsByName(r)
     \/ UpdateWrite(r)
     \/ Respond(r)

SpecValidate == InitNames /\ [][NextValidate]_vars

(* The fields of a payload that break a rule of request validation: a      *)
(* required field (of a create) that is missing, a name or description     *)
(* that is not a string or whose length is out of bounds, a negative price *)
(* or stock, a category that is not one of the valid ones.                 *)
ViolatingFields(kind, body) ==
       (IF Has(body, "name")
          THEN IF \/ ~IsString(body.name)
                  \/ Len(body.name) < NameMinValidator
                  \/ Len(body.name) > NameMaxLen
                 THEN {"name"} ELSE {}
          ELSE IF kind = "create" THEN {"name"} ELSE {})
  \cup (IF Has(body, "description")
          THEN IF \/ body.description = NoLength
                  \/ body.description < DescMinValidator
                  \/ body.description > DescMaxLen
                 THEN {"description"} ELSE {}
          ELSE IF kind = "create" THEN {"description"} ELSE {})
  \cup (IF Has(body, "price")
          THEN IF body.price < 0 THEN {"price"} ELSE {}
          ELSE IF kind = "create" THEN {"price"} ELSE {})
  \cup (IF Has(body, "stock") /\ body.stock < 0 THEN {"stock"} ELSE {})
  \cup (IF Has(body, "category")
          THEN IF body.category \notin validCategories THEN {"category"} ELSE {}
          ELSE IF kind = "create" THEN {"category"} ELSE {})

(* Request r arrives as a create, or as an update with a well-formed id *)
ArrivesWithPayload(r) ==
  /\ req[r].pc = "idle"
  /\ req'[r].pc # "idle"
  /\ \/ req'[r].kind = "create"
     \/ req'[r].kind = "update" /\ req'[r].id # NullId

(* C15: a create or update whose payload breaks a rule of request          *)
(* validation is answered at once (the service is not called and the       *)
(* store not touched) with status 400 and a message that has one entry     *)
(* per violating field.                                                    *)
C15_ValidationErrors ==
  [][\A r \in Reqs :
        (/\ ArrivesWithPayload(r)
         /\ ViolatingFields(req'[r].kind, req'[r].body) # {}) =>
            /\ req'[r].pc = "done"
            /\ store' = store
            /\ req'[r].res.statusCode = 400
            /\ Len(req'[r].res.message) =
                  Cardinality(ViolatingFields(req'[r].kind, req'[r].body))
  ]_vars

(* The same for payloads whose name and description, when present, are     *)
(* strings.                                                                *)
ValidationErrorsOfStrings ==
  [][\A r \in Reqs :
        (/\ ArrivesWithPayload(r)
         /\ createTrimThrows(req'[r].body) = ""
         /\ updateTrimThrows(req'[r].body) = ""
         /\ ViolatingFields(req'[r].kind, req'[r].body) # {}) =>
            /\ req'[r].pc = "done"
            /\ store' = store
            /\ req'[r].res.statusCode = 400
            /\ Len(req'[r].res.message) =
                  Cardinality(ViolatingFields(req'[r].kind, req'[r].body))
  ]_vars

----------------------------------------------------------------------------
(* Stock adjustments alone: no other request writes the stock *)

NextAdjust ==
  \E r \in Reqs :
     \/ PatchStock(r, Deltas)
     \/ StockFindById(r)
     \/ StockUpdateStock(r)
     \/ Respond(r)

SpecAdjust == InitStock /\ [][NextAdjust]_vars

(* The delta of request r if this step answers it with success as a stock  *)
(* adjustment of product id, 0 otherwise                                   *)
SuccessDelta(r, id) ==
  IF /\ req[r].kind = "stock" /\ req[r].id = id
     /\ req[r].pc # "done" /\ req'[r].pc = "done"
     /\ req'[r].res.success
    THEN req[r].body.quantity
    ELSE 0

RECURSIVE SumSuccessDeltas(_, _)
SumSuccessDeltas(R, id) ==
  IF R = {} THEN 0
  ELSE LET r == CHOOSE x \in R : TRUE
       IN SuccessDelta(r, id) + SumSuccessDeltas(R \ {r}, id)

(* C16: no stock adjustment is lost.  Every step changes the stock of      *)
(* every product by exactly the sum of the deltas of the stock adjustments *)
(* of that product that the step answers with success; so after any        *)
(* interleaving the stock is the initial stock plus the sum of the deltas  *)
(* of the adjustments answered with success.                               *)
C16_NoLostAdjustment ==
  [][\A id \in DOMAIN store :
        /\ id \in DOMAIN store'
        /\ store'[id].stock = store[id].stock + SumSuccessDeltas(Reqs, id)
  ]_vars

(* Two adjustments by -1 of a product with stock 1 ran concurrently, both  *)
(* were answered with success, and the stock is 1 - 1 - 1.                 *)
C16_Witness ==
  \E r, q \in Reqs :
     /\ r # q
     /\ StockRequest(r) /\ req[r].pc = "done" /\ req[r].res.success
     /\ StockRequest(q) /\ req[q].pc = "done" /\ req[q].res.success
     /\ req[r].id = req[q].id
     /\ req[r].body.quantity = 0 - 1
     /\ req[q].body.quantity = 0 - 1
     /\ req[r].id \in DOMAIN store
     /\ store[req[r].id].stock = 0 - 1

----------------------------------------------------------------------------
(* Claims about the frame of a request that is answered with an error *)

(* This step answers request r with an error *)
AnsweredWithError(r) ==
  /\ req[r].pc # "done"
  /\ req'[r].pc = "done"
  /\ ~req'[r].res.success

(* Request r arrives with a malformed :id, or as a stock adjustment        *)
(* without a quantity                                                      *)
ArrivesMalformed(r) ==
  /\ req[r].pc = "idle"
  /\ req'[r].pc # "idle"
  /\ \/ /\ req'[r].kind \in {"get", "update", "delete", "permanent", "stock"}
        /\ req'[r].id = NullId
     \/ /\ req'[r].kind = "stock"
        /\ req'[r].body = Null

(* C17: a step that answers a request with an error changes no stored      *)
(* product, and the only step of a request that changes the store is one   *)
(* that answers it with success, so a request answered with an error has   *)
(* changed nothing; a request that request validation rejects is answered  *)
(* with 400 on arrival, before any call of the service or the store.       *)
C17_ErrorsChangeNothing ==
  [][\A r \in Reqs :
        /\ AnsweredWithError(r) => store' = store
        /\ (Steps(r) /\ store' # store) =>
              req'[r].pc = "done" /\ req'[r].res.success
        /\ ArrivesMalformed(r) =>
              /\ req'[r].pc = "done"
              /\ req'[r].res.statusCode = 400
              /\ store' = store
  ]_vars

(* With a product stored, one request was answered with a store-level      *)
(* error (the schema validation of a create) and another with not-found or *)
(* a business-rule error, and the product is stored as before.             *)
C17_Witness ==
  \E r, q \in Reqs :
     /\ req[r].kind = "create" /\ req[r].pc = "done"
     /\ req[r].res.statusCode = 400
     /\ req[r].res.message = <<"category">>
     /\ req[q].kind \in {"delete", "stock", "get"} /\ req[q].pc = "done"
     /\ req[q].res.statusCode \in {400, 404}
     /\ req[q].id # NullId
     /\ store # <<>>

====
